---- MODULE Spec2Model ----
(***************************************************************************)
(* check_changes.go: compareVersions compares the derived property values, *)
(* the General_Category and the NFK data of two Unicode versions and       *)
(* builds Appendix A..F in one buffer that is printed at the very end.     *)
(*                                                                         *)
(* Go strings that the program takes apart or builds (hexadecimal code     *)
(* point keys) are sequences of hexadecimal digit values; the other        *)
(* strings (property values, categories, names) are opaque.  A Go map is   *)
(* a function whose DOMAIN is the set of keys; reading a missing key       *)
(* gives the zero value.                                                   *)
(***************************************************************************)
EXTENDS Integers, Sequences, FiniteSets, TLC

\* ------------------------------------------------------------------ bounds
\* Code points of the model: FirstCP .. FirstCP + MaxCP (0xFFFE, 0xFFFF and
\* 0x10000: both the four-digit and the five-digit rendering of %04X occur).
FirstCP == 65534
MaxCP == 2
\* Largest number of records of the old allcodepoints.txt.
MaxOldLines == 2
\* Largest number of lines of one DerivedGeneralCategory.txt.
MaxGCLines == 1
\* Largest number of lines of the new nfk.txt.
MaxNFKLines == 1

CP == FirstCP .. (FirstCP + MaxCP)

\* ----------------------------------------------------------------- strings
RECURSIVE HexDigits(_)
HexDigits(n) == IF n = 0 THEN <<>> ELSE Append(HexDigits(n \div 16), n % 16)

RECURSIVE ZeroPad(_, _)
ZeroPad(s, width) == IF Len(s) >= width THEN s ELSE ZeroPad(<<0>> \o s, width)

\* fmt.Sprintf("%04X", n) for n >= 0
Sprintf04X(n) == ZeroPad(HexDigits(n), 4)

RECURSIVE ParseHex(_)
ParseHex(s) == IF s = <<>> THEN 0 ELSE 16 * ParseHex(SubSeq(s, 1, Len(s) - 1)) + s[Len(s)]

\* hexToInt: strconv.ParseInt(hexStr, 16, 32); the panic on a string that is
\* no hexadecimal number of 32 bits is the value -1 here (no key of the
\* model's inputs is such a string).
hexToInt(hexStr) ==
    IF hexStr = <<>> \/ ParseHex(hexStr) > 2147483647 THEN -1 ELSE ParseHex(hexStr)

\* m[k] of a Go map[string]string
Lookup(m, k) == IF k \in DOMAIN m THEN m[k] ELSE ""

\* m[k] of a Go map[string][]string
LookupSlice(m, k) == IF k \in DOMAIN m THEN m[k] ELSE <<>>

\* the map m after m[k] = v
MapSet(m, k, v) == [x \in (DOMAIN m) \cup {k} |-> IF x = k THEN v ELSE m[x]]

EmptyMap == [x \in {} |-> ""]

\* ------------------------------------------------------------------ inputs
\* The code point field of every record is written as the data files write
\* it: upper-case hexadecimal of at least four digits.  The files are
\* sparse: any code point may be missing from any of them.
Keys == {Sprintf04X(n) : n \in CP}

OldProperties == {"UNASSIGNED", "PVALID"}
NewProperties == {"UNASSIGNED", "PVALID", "DISALLOWED"}
Categories == {"Lu", "Mn"}
CodePointName == "NAME"

\* allcodepoints.txt of the new version: records codepoint;property;..;name
NewFiles ==
    UNION {[S -> [property : NewProperties, name : {CodePointName}]] : S \in SUBSET Keys}

\* allcodepoints.txt of the old version
OldFiles ==
    UNION {[S -> [property : OldProperties, name : {CodePointName}]] :
             S \in {T \in SUBSET Keys : Cardinality(T) <= MaxOldLines}}

\* DerivedGeneralCategory.txt: lines "XXXX ; Gc", and the line
\* "XXXX..YYYY ; Mn" for the whole block of code points
GCLines ==
    [first : CP, last : {0}, range : {FALSE}, category : Categories]
    \cup {[first |-> FirstCP, last |-> FirstCP + MaxCP, range |-> TRUE, category |-> "Mn"]}

SeqsUpTo(S, n) == UNION {[1..k -> S] : k \in 0..n}

GCFiles == SeqsUpTo(GCLines, MaxGCLines)

\* nfk.txt of the new version, its lines split at ";" and the "U+" taken off:
\* "U+XXXX;tok;tok" for any code point, "U+XXXX;tok" and a line without ";"
NFKLines ==
    {<<Sprintf04X(FirstCP)>>, <<Sprintf04X(FirstCP), "T1">>}
    \cup {<<k, "T1", "T2">> : k \in Keys}

NFKFiles == SeqsUpTo(NFKLines, MaxNFKLines)

\* nfk.txt of the old version, which only the log of changed normalizations reads
OldNFKFiles == {<<<<Sprintf04X(FirstCP), "T1", "T2">>>>}

\* ------------------------------------------------------------------- state
VARIABLES
    pc,                \* the statement of compareVersions that runs next
    properties1,       \* derived property values of the old version
    properties2,       \* derived property values of the new version
    codePointNames2,   \* names of the new version
    codepoints,        \* keys of properties2 as integers, sorted
    generalCategory1,
    generalCategory2,
    nfk1,
    nfk2,
    appendix,          \* []Entry: the code points to put UNDER REVIEW
    changeCounts,      \* "old to new" -> number of code points
    numAppendixA, numAppendixB, numAppendixC, numAppendixD, numAppendixE,
    buffer,            \* strings.Builder: the report, line by line
    stdout,            \* what the process has printed
    allcodepoints2     \* version2/allcodepoints.txt as the file system supplied it

vars == <<pc, properties1, properties2, codePointNames2, codepoints,
          generalCategory1, generalCategory2, nfk1, nfk2, appendix, changeCounts,
          numAppendixA, numAppendixB, numAppendixC, numAppendixD, numAppendixE,
          buffer, stdout, allcodepoints2>>

\* One line of text: the appendix it belongs to, what kind of line it is and
\* the values its format string is filled with.
Line(app, kind, cp, a, b, name) ==
    [app |-> app, kind |-> kind, cp |-> cp, a |-> a, b |-> b, name |-> name]

Header(app) == Line(app, "header", <<>>, "", "", "")
ColumnHeader(app) == Line(app, "columns", <<>>, "", "", "")
Placeholder(app) == Line(app, "none", <<>>, "", "", "")
LogLine(what, n) == Line("log", what, <<>>, n, "", "")

\* type Entry struct { Number int; Name string }
\* Name is always fmt.Sprintf("U+%s; UNDER REVIEW # %s", codepoint, name)
Entry(number, codepoint, name) ==
    [Number |-> number, Name |-> <<"U+", codepoint, "; UNDER REVIEW # ", name>>]

Init ==
    /\ pc = "readProperties1"
    /\ properties1 = EmptyMap
    /\ properties2 = EmptyMap
    /\ codePointNames2 = EmptyMap
    /\ codepoints = <<>>
    /\ generalCategory1 = EmptyMap
    /\ generalCategory2 = EmptyMap
    /\ nfk1 = EmptyMap
    /\ nfk2 = EmptyMap
    /\ appendix = <<>>
    /\ changeCounts = EmptyMap
    /\ numAppendixA = 0
    /\ numAppendixB = 0
    /\ numAppendixC = 0
    /\ numAppendixD = 0
    /\ numAppendixE = 0
    /\ buffer = <<>>
    /\ stdout = <<>>
    /\ allcodepoints2 = EmptyMap

\* ----------------------------------------------------------------- loaders
\* readCodepointProperties: properties[fields[0]] = fields[1],
\* codePointNames[fields[0]] = fields[3] for every record of the file
readCodepointProperties(file) ==
    [properties |-> [k \in DOMAIN file |-> file[k].property],
     codePointNames |-> [k \in DOMAIN file |-> file[k].name]]

\* the keys a line of DerivedGeneralCategory.txt sets: every %04X of the
\* range, or the code point field as it is written
GCLineKeys(l) ==
    IF l.range THEN {Sprintf04X(i) : i \in l.first .. l.last} ELSE {Sprintf04X(l.first)}

RECURSIVE readGeneralCategoryFrom(_, _, _)
readGeneralCategoryFrom(file, i, categories) ==
    IF i > Len(file) THEN categories
    ELSE readGeneralCategoryFrom(file, i + 1,
            [k \in (DOMAIN categories) \cup GCLineKeys(file[i]) |->
                IF k \in GCLineKeys(file[i]) THEN file[i].category ELSE categories[k]])

readGeneralCategory(file) == readGeneralCategoryFrom(file, 1, EmptyMap)

\* readNFKData: a line of more than one field sets nfkData[parts[0] without
\* "U+"] = parts[1:]
RECURSIVE readNFKDataFrom(_, _, _)
readNFKDataFrom(file, i, nfkData) ==
    IF i > Len(file) THEN nfkData
    ELSE readNFKDataFrom(file, i + 1,
            IF Len(file[i]) > 1
            THEN MapSet(nfkData, file[i][1], SubSeq(file[i], 2, Len(file[i])))
            ELSE nfkData)

readNFKData(file) == readNFKDataFrom(file, 1, EmptyMap)

\* sort.Ints of the integers of a set
RECURSIVE SortInts(_)
SortInts(S) ==
    IF S = {} THEN <<>>
    ELSE LET m == CHOOSE x \in S : \A y \in S : x <= y
         IN <<m>> \o SortInts(S \ {m})

\* Abort that prints what the buffer holds before it returns (a faulty
\* variant, used to show that C7_AllOrNothing depends on the plain return)
AbortFlushing ==
    /\ pc' = "aborted"
    /\ stdout' = stdout \o buffer \o <<LogLine("error", 0)>>

\* an "if err != nil { fmt.Printf(...); return }" of compareVersions
Abort ==
    /\ pc' = "aborted"
    /\ stdout' = Append(stdout, LogLine("error", 0))

ReadProperties1 ==
    /\ pc = "readProperties1"
    /\ \/ /\ Abort
          /\ UNCHANGED properties1
       \/ /\ \E file \in OldFiles :
                properties1' = readCodepointProperties(file).properties
          /\ pc' = "readProperties2"
          /\ UNCHANGED stdout
    /\ UNCHANGED <<properties2, codePointNames2, codepoints, generalCategory1,
                   generalCategory2, nfk1, nfk2, appendix, changeCounts,
                   numAppendixA, numAppendixB, numAppendixC, numAppendixD,
                   numAppendixE, buffer, allcodepoints2>>

\* reads the new properties, then collects and sorts the code points
ReadProperties2 ==
    /\ pc = "readProperties2"
    /\ \/ /\ Abort
          /\ UNCHANGED <<properties2, codePointNames2, codepoints, allcodepoints2>>
       \/ /\ \E file \in NewFiles :
                /\ allcodepoints2' = file
                /\ properties2' = readCodepointProperties(file).properties
                /\ codePointNames2' = readCodepointProperties(file).codePointNames
                /\ codepoints' = SortInts({hexToInt(k) : k \in DOMAIN file})
          /\ pc' = "appendixA"
          /\ UNCHANGED stdout
    /\ UNCHANGED <<properties1, generalCategory1, generalCategory2, nfk1, nfk2,
                   appendix, changeCounts, numAppendixA, numAppendixB,
                   numAppendixC, numAppendixD, numAppendixE, buffer>>


\* -------------------------------------------------------------- Appendix A
\* line 186: the derived property value changed
PropertyChanged(codepoint) ==
    codepoint \in DOMAIN properties1
    /\ properties1[codepoint] # Lookup(properties2, codepoint)

\* CategoryA without the test of line 190 (a faulty variant, used to show
\* that C5_UnassignedCounted depends on that test)
CategoryAFromUnassigned(codepoint) == PropertyChanged(codepoint)

\* lines 186 and 190: the change goes to Appendix A and UNDER REVIEW
CategoryA(codepoint) ==
    PropertyChanged(codepoint) /\ properties1[codepoint] # "UNASSIGNED"

\* changeKey := fmt.Sprintf("%s to %s", oldProperty, newProperty)
ChangeKey(oldProperty, newProperty) == <<oldProperty, " to ", newProperty>>

\* one pass of the loop of lines 180-201
AppendixAStep(acc, codepointInt) ==
    LET codepoint == Sprintf04X(codepointInt)
        oldProperty == Lookup(properties1, codepoint)
        newProperty == Lookup(properties2, codepoint)
        name == Lookup(codePointNames2, codepoint)
        changeKey == ChangeKey(oldProperty, newProperty)
        counted == MapSet(acc.changeCounts, changeKey,
                          (IF changeKey \in DOMAIN acc.changeCounts
                           THEN acc.changeCounts[changeKey] ELSE 0) + 1)
    IN  IF ~PropertyChanged(codepoint) THEN acc
        ELSE IF ~CategoryA(codepoint) THEN [acc EXCEPT !.changeCounts = counted]
        ELSE [changeCounts |-> counted,
              buffer |-> (IF acc.num = 0 THEN Append(acc.buffer, ColumnHeader("A"))
                          ELSE acc.buffer)
                         \o <<Line("A", "line", codepoint, oldProperty, newProperty, name)>>,
              appendix |-> Append(acc.appendix, Entry(codepointInt, codepoint, name)),
              num |-> acc.num + 1,
              numE |-> acc.numE + 1]

RECURSIVE AppendixALoop(_, _)
AppendixALoop(acc, i) ==
    IF i > Len(codepoints) THEN acc
    ELSE AppendixALoop(AppendixAStep(acc, codepoints[i]), i + 1)

AppendixA ==
    /\ pc = "appendixA"
    /\ LET r == AppendixALoop([changeCounts |-> changeCounts,
                               buffer |-> Append(buffer, Header("A")),
                               appendix |-> appendix,
                               num |-> numAppendixA,
                               numE |-> numAppendixE], 1)
       IN /\ changeCounts' = r.changeCounts
          /\ appendix' = r.appendix
          /\ numAppendixA' = r.num
          /\ numAppendixE' = r.numE
          /\ buffer' = IF r.num = 0 THEN Append(r.buffer, Placeholder("A")) ELSE r.buffer
          /\ stdout' = Append(stdout, LogLine("A", r.num))
    /\ pc' = "summary"
    /\ UNCHANGED <<properties1, properties2, codePointNames2, codepoints,
                   generalCategory1, generalCategory2, nfk1, nfk2, numAppendixB,
                   numAppendixC, numAppendixD, allcodepoints2>>

\* ----------------------------------------------------------------- summary
\* the decimal digits of n >= 0
RECURSIVE DecDigits(_)
DecDigits(n) == IF n < 10 THEN <<n>> ELSE Append(DecDigits(n \div 10), n % 10)

\* byte order of the property values the inputs use
TextRank(property) ==
    CASE property = "DISALLOWED" -> 1
      [] property = "PVALID" -> 2
      [] property = "UNASSIGNED" -> 3
      [] OTHER -> 0

\* s < t for sequences of numbers, a proper prefix first
RECURSIVE SeqLess(_, _)
SeqLess(s, t) ==
    IF t = <<>> THEN FALSE
    ELSE IF s = <<>> THEN TRUE
    ELSE IF s[1] # t[1] THEN s[1] < t[1]
    ELSE SeqLess(Tail(s), Tail(t))

\* fmt.Sprintf("# %d code %s changed from %s", count, theWord, change)
SummaryLine(change) ==
    Line("A", "change", <<>>, changeCounts[change],
         IF changeCounts[change] = 1 THEN "point" ELSE "points", change)


\* the bytes that order one rendered summary line: the count's digits, the
\* blank after them (below every digit), "point " before "points", the change
SummaryText(change) ==
    DecDigits(changeCounts[change])
    \o <<-1, IF changeCounts[change] = 1 THEN 0 ELSE 1,
         TextRank(change[1]), TextRank(change[3])>>

\* sort.Strings(sortedChanges)
RECURSIVE SortedChanges(_)
SortedChanges(changes) ==
    IF changes = {} THEN <<>>
    ELSE LET m == CHOOSE x \in changes :
                    \A y \in changes \ {x} : SeqLess(SummaryText(x), SummaryText(y))
         IN <<SummaryLine(m)>> \o SortedChanges(changes \ {m})

RECURSIVE SumCounts(_)
SumCounts(changes) ==
    IF changes = {} THEN 0
    ELSE LET c == CHOOSE x \in changes : TRUE
         IN changeCounts[c] + SumCounts(changes \ {c})

Summary ==
    /\ pc = "summary"
    /\ buffer' =
         IF DOMAIN changeCounts # {}
         THEN buffer \o SortedChanges(DOMAIN changeCounts)
              \o <<Line("A", "total", <<>>, SumCounts(DOMAIN changeCounts),
                        IF SumCounts(DOMAIN changeCounts) = 1 THEN "point" ELSE "points",
                        "")>>
         ELSE Append(buffer, Line("A", "nochange", <<>>, 0, "", ""))
    /\ pc' = "readGeneralCategory1"
    /\ UNCHANGED <<properties1, properties2, codePointNames2, codepoints,
                   generalCategory1, generalCategory2, nfk1, nfk2, appendix,
                   changeCounts, numAppendixA, numAppendixB, numAppendixC,
                   numAppendixD, numAppendixE, stdout, allcodepoints2>>

\* -------------------------------------------------------------- Appendix B
ReadGeneralCategory1 ==
    /\ pc = "readGeneralCategory1"
    /\ \/ /\ Abort
          /\ UNCHANGED generalCategory1
       \/ /\ \E file \in GCFiles : generalCategory1' = readGeneralCategory(file)
          /\ pc' = "readGeneralCategory2"
          /\ UNCHANGED stdout
    /\ UNCHANGED <<properties1, properties2, codePointNames2, codepoints,
                   generalCategory2, nfk1, nfk2, appendix, changeCounts,
                   numAppendixA, numAppendixB, numAppendixC, numAppendixD,
                   numAppendixE, buffer, allcodepoints2>>

ReadGeneralCategory2 ==
    /\ pc = "readGeneralCategory2"
    /\ \/ /\ Abort
          /\ UNCHANGED generalCategory2
       \/ /\ \E file \in GCFiles : generalCategory2' = readGeneralCategory(file)
          /\ pc' = "appendixB"
          /\ UNCHANGED stdout
    /\ UNCHANGED <<properties1, properties2, codePointNames2, codepoints,
                   generalCategory1, nfk1, nfk2, appendix, changeCounts,
                   numAppendixA, numAppendixB, numAppendixC, numAppendixD,
                   numAppendixE, buffer, allcodepoints2>>

\* lines 262 and 266
CategoryB(codepoint) ==
    /\ codepoint \in DOMAIN properties1
    /\ Lookup(generalCategory1, codepoint) # Lookup(generalCategory2, codepoint)
    /\ properties1[codepoint] # "UNASSIGNED"
    /\ Lookup(properties2, codepoint) # "UNASSIGNED"

\* AppendixBStep with the append of line 274 that the program has commented
\* out (a faulty variant, used to show that C9_CategoryNotFlagged depends on it)
AppendixBStepFlagging(acc, codepointInt) ==
    LET codepoint == Sprintf04X(codepointInt)
        name == Lookup(codePointNames2, codepoint)
    IN  IF ~CategoryB(codepoint) THEN acc
        ELSE [buffer |-> (IF acc.num = 0 THEN Append(acc.buffer, ColumnHeader("B"))
                          ELSE acc.buffer)
                         \o <<Line("B", "line", codepoint,
                                   Lookup(generalCategory1, codepoint),
                                   Lookup(generalCategory2, codepoint), name)>>,
              appendix |-> Append(acc.appendix, Entry(codepointInt, codepoint, name)),
              num |-> acc.num + 1,
              numE |-> acc.numE + 1]

\* one pass of the loop of lines 257-279: a line, and no Entry
AppendixBStep(acc, codepointInt) ==
    LET codepoint == Sprintf04X(codepointInt)
    IN  IF ~CategoryB(codepoint) THEN acc
        ELSE [acc EXCEPT
                !.buffer = (IF acc.num = 0 THEN Append(acc.buffer, ColumnHeader("B"))
                            ELSE acc.buffer)
                           \o <<Line("B", "line", codepoint,
                                     Lookup(generalCategory1, codepoint),
                                     Lookup(generalCategory2, codepoint),
                                     Lookup(codePointNames2, codepoint))>>,
                !.num = acc.num + 1]

RECURSIVE AppendixBLoop(_, _)
AppendixBLoop(acc, i) ==
    IF i > Len(codepoints) THEN acc
    ELSE AppendixBLoop(AppendixBStep(acc, codepoints[i]), i + 1)

AppendixB ==
    /\ pc = "appendixB"
    /\ LET r == AppendixBLoop([buffer |-> Append(buffer, Header("B")),
                               appendix |-> appendix,
                               num |-> numAppendixB,
                               numE |-> numAppendixE], 1)
       IN /\ appendix' = r.appendix
          /\ numAppendixB' = r.num
          /\ numAppendixE' = r.numE
          /\ buffer' = IF r.num = 0 THEN Append(r.buffer, Placeholder("B")) ELSE r.buffer
          /\ stdout' = Append(stdout, LogLine("B", r.num))
    /\ pc' = "appendixC"
    /\ UNCHANGED <<properties1, properties2, codePointNames2, codepoints,
                   generalCategory1, generalCategory2, nfk1, nfk2, changeCounts,
                   numAppendixA, numAppendixC, numAppendixD, allcodepoints2>>

\* -------------------------------------------------------------- Appendix C
\* CategoryC without the test of line 316 (a faulty variant, used to show
\* that C4_UnchangedSilent depends on that test)
CategoryCAnyMn(codepoint) ==
    /\ Lookup(properties2, codepoint) # "UNASSIGNED"
    /\ Lookup(generalCategory2, codepoint) = "Mn"

\* lines 313 and 316
CategoryC(codepoint) ==
    /\ Lookup(properties2, codepoint) # "UNASSIGNED"
    /\ Lookup(generalCategory2, codepoint) = "Mn"
    /\ Lookup(generalCategory1, codepoint) # "Mn"

\* the counts of lines 290-306
CountMn(properties, generalCategory) ==
    Cardinality({k \in DOMAIN properties :
                    properties[k] # "UNASSIGNED" /\ Lookup(generalCategory, k) = "Mn"})

AppendixCStep(acc, codepointInt) ==
    LET codepoint == Sprintf04X(codepointInt)
        name == Lookup(codePointNames2, codepoint)
    IN  IF ~CategoryC(codepoint) THEN acc
        ELSE [buffer |-> (IF acc.num = 0 THEN Append(acc.buffer, ColumnHeader("C"))
                          ELSE acc.buffer)
                         \o <<Line("C", "line", codepoint, "", "", name)>>,
              appendix |-> Append(acc.appendix, Entry(codepointInt, codepoint, name)),
              num |-> acc.num + 1,
              numE |-> acc.numE + 1]

RECURSIVE AppendixCLoop(_, _)
AppendixCLoop(acc, i) ==
    IF i > Len(codepoints) THEN acc
    ELSE AppendixCLoop(AppendixCStep(acc, codepoints[i]), i + 1)

AppendixC ==
    /\ pc = "appendixC"
    /\ LET r == AppendixCLoop([buffer |-> Append(buffer, Header("C")),
                               appendix |-> appendix,
                               num |-> numAppendixC,
                               numE |-> numAppendixE], 1)
       IN /\ appendix' = r.appendix
          /\ numAppendixC' = r.num
          /\ numAppendixE' = r.numE
          /\ buffer' = (IF r.num = 0 THEN Append(r.buffer, Placeholder("C")) ELSE r.buffer)
                       \o <<Header("D")>>
          /\ stdout' = stdout \o
                <<LogLine("Mn", CountMn(properties2, generalCategory2)
                                - CountMn(properties1, generalCategory1)),
                  LogLine("C", r.num)>>
    /\ pc' = "readNFK1"
    /\ UNCHANGED <<properties1, properties2, codePointNames2, codepoints,
                   generalCategory1, generalCategory2, nfk1, nfk2, changeCounts,
                   numAppendixA, numAppendixB, numAppendixD, allcodepoints2>>


\* -------------------------------------------------------------- Appendix D
ReadNFK1 ==
    /\ pc = "readNFK1"
    /\ \/ /\ Abort
          /\ UNCHANGED nfk1
       \/ /\ \E file \in OldNFKFiles : nfk1' = readNFKData(file)
          /\ pc' = "appendixD"
          /\ UNCHANGED stdout
    /\ UNCHANGED <<properties1, properties2, codePointNames2, codepoints,
                   generalCategory1, generalCategory2, nfk2, appendix, changeCounts,
                   numAppendixA, numAppendixB, numAppendixC, numAppendixD,
                   numAppendixE, buffer, allcodepoints2>>

\* CategoryD with len(nfk2[codepoint]) > 0 (a faulty variant, used to show
\* that C6_OnlyNewDecomposing depends on the length test of line 371)
CategoryDAnyLength(nfk, codepoint) ==
    /\ codepoint \in DOMAIN properties1
    /\ properties1[codepoint] = "UNASSIGNED"
    /\ Lookup(properties2, codepoint) = "PVALID"
    /\ Len(LookupSlice(nfk, codepoint)) > 0

\* lines 362 and 371
CategoryD(nfk, codepoint) ==
    /\ codepoint \in DOMAIN properties1
    /\ properties1[codepoint] = "UNASSIGNED"
    /\ Lookup(properties2, codepoint) = "PVALID"
    /\ Len(LookupSlice(nfk, codepoint)) > 1

\* lines 362 and 366: a changed normalization, which is only logged
OtherNFKChange(nfk, codepoint) ==
    /\ codepoint \in DOMAIN properties1
    /\ properties1[codepoint] # "UNASSIGNED"
    /\ Len(LookupSlice(nfk, codepoint)) > 1
    /\ LookupSlice(nfk1, codepoint) # LookupSlice(nfk, codepoint)

AppendixDStep(nfk, acc, codepointInt) ==
    LET codepoint == Sprintf04X(codepointInt)
        name == Lookup(codePointNames2, codepoint)
    IN  IF ~CategoryD(nfk, codepoint) THEN acc
        ELSE [buffer |-> Append(acc.buffer,
                                Line("D", "line", codepoint,
                                     LookupSlice(nfk, codepoint), "", name)),
              appendix |-> Append(acc.appendix,
                                  Entry(hexToInt(codepoint), codepoint, name)),
              num |-> acc.num + 1,
              numE |-> acc.numE + 1]

RECURSIVE AppendixDLoop(_, _, _)
AppendixDLoop(nfk, acc, i) ==
    IF i > Len(codepoints) THEN acc
    ELSE AppendixDLoop(nfk, AppendixDStep(nfk, acc, codepoints[i]), i + 1)

\* reads the new nfk.txt and, unless that fails, runs the loop of Appendix D
AppendixD ==
    /\ pc = "appendixD"
    /\ \/ /\ Abort
          /\ UNCHANGED <<nfk2, appendix, numAppendixD, numAppendixE, buffer>>
       \/ \E file \in NFKFiles :
            LET nfk == readNFKData(file)
                r == AppendixDLoop(nfk, [buffer |-> buffer,
                                         appendix |-> appendix,
                                         num |-> numAppendixD,
                                         numE |-> numAppendixE], 1)
            IN /\ nfk2' = nfk
               /\ appendix' = r.appendix
               /\ numAppendixD' = r.num
               /\ numAppendixE' = r.numE
               /\ buffer' = IF r.num = 0 THEN Append(r.buffer, Placeholder("D"))
                            ELSE r.buffer
               /\ stdout' =
                     (IF \E i \in 1..Len(codepoints) :
                            OtherNFKChange(nfk, Sprintf04X(codepoints[i]))
                      THEN stdout ELSE Append(stdout, LogLine("No change in NFK", 0)))
                     \o <<LogLine("D", r.num)>>
               /\ pc' = "appendixE"
    /\ UNCHANGED <<properties1, properties2, codePointNames2, codepoints,
                   generalCategory1, generalCategory2, nfk1, changeCounts,
                   numAppendixA, numAppendixB, numAppendixC, allcodepoints2>>

\* -------------------------------------------------------------- Appendix E
\* SortSlice that leaves the slice as it is (a faulty variant, used to show
\* that C8_StableReview depends on the sort)
SortSliceUnsorted(entries) == {entries}

\* sort.Slice(appendix, less by Number) is not a stable sort: the slice may
\* come out as any ordering of its entries that ascends by Number
SortSlice(entries) ==
    {[i \in 1..Len(entries) |-> entries[p[i]]] :
        p \in {q \in [1..Len(entries) -> 1..Len(entries)] :
                 /\ \A i, j \in 1..Len(entries) : i # j => q[i] # q[j]
                 /\ \A i \in 1..(Len(entries) - 1) :
                       entries[q[i]].Number <= entries[q[i + 1]].Number}}

\* ApplyEntries that stops before the last entry (a faulty variant, used to
\* show that C3_Override depends on every entry being applied)
RECURSIVE ApplyEntriesButLast(_, _, _)
ApplyEntriesButLast(entries, i, properties) ==
    IF i >= Len(entries) THEN properties
    ELSE ApplyEntriesButLast(entries, i + 1,
            MapSet(properties, Sprintf04X(entries[i].Number), "UNDER REVIEW"))

\* ApplyEntries that puts every code point UNDER REVIEW once there is an
\* entry (a faulty variant, used to show that C10_OverwrittenInPlace depends
\* on the key that line 401 writes)
ApplyEntriesToAll(entries, i, properties) ==
    IF entries = <<>> THEN properties
    ELSE [k \in DOMAIN properties |-> "UNDER REVIEW"]

\* the loop of lines 398-403 over the sorted entries: properties2 after it
RECURSIVE ApplyEntries(_, _, _)
ApplyEntries(entries, i, properties) ==
    IF i > Len(entries) THEN properties
    ELSE ApplyEntries(entries, i + 1,
                      MapSet(properties, Sprintf04X(entries[i].Number), "UNDER REVIEW"))

AppendixE ==
    /\ pc = "appendixE"
    /\ \E sorted \in SortSlice(appendix) :
          /\ appendix' = sorted
          /\ buffer' = Append(buffer, Header("E"))
                \o [i \in 1..Len(sorted) |-> Line("E", "line", <<>>, "", "", sorted[i].Name)]
                \o (IF numAppendixE = 0 THEN <<Placeholder("E")>> ELSE <<>>)
          /\ properties2' = ApplyEntries(sorted, 1, properties2)
    /\ stdout' = Append(stdout, LogLine("E", numAppendixE))
    /\ pc' = "appendixF"
    /\ UNCHANGED <<properties1, codePointNames2, codepoints, generalCategory1,
                   generalCategory2, nfk1, nfk2, changeCounts, numAppendixA,
                   numAppendixB, numAppendixC, numAppendixD, numAppendixE,
                   allcodepoints2>>

\* -------------------------------------------------------------- Appendix F
\* "U+%04X; %s" if start == end, else "U+%04X..U+%04X; %s"
RangeLine(start, end, currentProperty) ==
    IF start = end
    THEN Line("F", "single", Sprintf04X(start), Sprintf04X(start), currentProperty, "")
    ELSE Line("F", "range", Sprintf04X(start), Sprintf04X(end), currentProperty, "")

\* AppendixFStep without the branch of line 426 that extends the run (a
\* faulty variant, used to show that C2_Maximal depends on that branch)
AppendixFStepNoExtend(run, codepointInt) ==
    LET property == Lookup(properties2, Sprintf04X(codepointInt))
    IN  IF run.first
        THEN [run EXCEPT !.start = codepointInt, !.end = codepointInt,
                         !.currentProperty = property, !.first = FALSE]
        ELSE [run EXCEPT !.lines = Append(run.lines,
                                          RangeLine(run.start, run.end, run.currentProperty)),
                         !.start = codepointInt, !.end = codepointInt,
                         !.currentProperty = property]

\* one pass of the loop of lines 417-439
AppendixFStep(run, codepointInt) ==
    LET property == Lookup(properties2, Sprintf04X(codepointInt))
    IN  IF run.first
        THEN [run EXCEPT !.start = codepointInt, !.end = codepointInt,
                         !.currentProperty = property, !.first = FALSE]
        ELSE IF property = run.currentProperty
        THEN [run EXCEPT !.end = codepointInt]
        ELSE [run EXCEPT !.lines = Append(run.lines,
                                          RangeLine(run.start, run.end, run.currentProperty)),
                         !.start = codepointInt, !.end = codepointInt,
                         !.currentProperty = property]

RECURSIVE AppendixFLoop(_, _)
AppendixFLoop(run, i) ==
    IF i > Len(codepoints) THEN run
    ELSE AppendixFLoop(AppendixFStep(run, codepoints[i]), i + 1)

\* builds Appendix F, prints the whole buffer and resets it
AppendixF ==
    /\ pc = "appendixF"
    /\ LET run == AppendixFLoop([start |-> 0, end |-> 0, currentProperty |-> "",
                                 first |-> TRUE, lines |-> <<>>], 1)
       IN stdout' = stdout \o Append(buffer, Header("F")) \o run.lines
                    \o <<RangeLine(run.start, run.end, run.currentProperty),
                         LogLine("end", 0)>>
    /\ buffer' = <<>>
    /\ pc' = "done"
    /\ UNCHANGED <<properties1, properties2, codePointNames2, codepoints,
                   generalCategory1, generalCategory2, nfk1, nfk2, appendix,
                   changeCounts, numAppendixA, numAppendixB, numAppendixC,
                   numAppendixD, numAppendixE, allcodepoints2>>

Next ==
    \/ ReadProperties1
    \/ ReadProperties2
    \/ AppendixA
    \/ Summary
    \/ ReadGeneralCategory1
    \/ ReadGeneralCategory2
    \/ AppendixB
    \/ AppendixC
    \/ ReadNFK1
    \/ AppendixD
    \/ AppendixE
    \/ AppendixF

Spec == Init /\ [][Next]_vars


\* ============================================================== properties
\* every line produced so far: printed, or still in the buffer
Text == stdout \o buffer

IsReportLine(l) == l.app # "log"

\* the per-code-point lines of Appendix A, B, C or D, in the order written
AppendixLines(app) ==
    LET Test(l) == l.app = app /\ l.kind = "line" IN SelectSeq(Text, Test)

\* the lines of Appendix A, C and D: one per Entry, in the order of discovery
FlaggingLines ==
    LET Test(l) == l.app \in {"A", "C", "D"} /\ l.kind = "line" IN SelectSeq(Text, Test)

\* the range lines of Appendix F
RangeLines ==
    LET Test(l) == l.app = "F" /\ l.kind \in {"single", "range"} IN SelectSeq(Text, Test)

HasLine(app, codepoint) ==
    \E i \in 1..Len(AppendixLines(app)) : AppendixLines(app)[i].cp = codepoint

HasEntry(codepoint) ==
    \E i \in 1..Len(appendix) : appendix[i].Number = hexToInt(codepoint)

\* the code points a range line stands for when it is expanded again
Expand(l) == hexToInt(l.cp) .. hexToInt(l.a)

\* the values the new allcodepoints.txt was loaded with
Loaded2 == readCodepointProperties(allcodepoints2).properties

Overridden == pc \in {"appendixF", "done"}
AllLoaded == pc \in {"appendixE", "appendixF", "done"}

\* --------------------------------------------------------------------- C1
\* C1: re-expanding the range lines of Appendix F gives back exactly the
\* effective table: every code point of an emitted range is a key of the table
\* with the range's value, and every key lies in exactly one emitted range
\* (for a new version that has a code point at all).
C1_RoundTrip ==
    pc = "done" /\ DOMAIN properties2 # {} =>
        /\ \A i \in 1..Len(RangeLines) : \A n \in Expand(RangeLines[i]) :
              /\ Sprintf04X(n) \in DOMAIN properties2
              /\ properties2[Sprintf04X(n)] = RangeLines[i].b
        /\ \A k \in DOMAIN properties2 :
              Cardinality({i \in 1..Len(RangeLines) :
                              hexToInt(k) \in Expand(RangeLines[i])}) = 1

\* --------------------------------------------------------------------- C2
\* C2: any two consecutive range lines of Appendix F carry different values.
C2_Maximal ==
    \A i \in 1..(Len(RangeLines) - 1) : RangeLines[i].b # RangeLines[i + 1].b

\* a report whose Appendix F has a range of several code points next to
\* another line, one of them UNDER REVIEW
C2_Witness ==
    /\ pc = "done"
    /\ Len(RangeLines) >= 2
    /\ \E i \in 1..Len(RangeLines) : RangeLines[i].kind = "range"
    /\ \E i \in 1..Len(RangeLines) : RangeLines[i].b = "UNDER REVIEW"

\* --------------------------------------------------------------------- C3
\* C3: once the entries are applied, every code point with an entry has the
\* value UNDER REVIEW whatever it was loaded with, and every other code point
\* of the new version has the value it was loaded with.
C3_Override ==
    Overridden =>
        /\ \A i \in 1..Len(appendix) :
              Lookup(properties2, Sprintf04X(appendix[i].Number)) = "UNDER REVIEW"
        /\ \A k \in DOMAIN allcodepoints2 :
              ~HasEntry(k) => Lookup(properties2, k) = allcodepoints2[k].property

\* entries for a code point loaded as PVALID and for one loaded as
\* UNASSIGNED, and a third code point without any entry
C3_Witness ==
    /\ Overridden
    /\ \E k \in DOMAIN allcodepoints2 :
          HasEntry(k) /\ allcodepoints2[k].property = "PVALID"
    /\ \E k \in DOMAIN allcodepoints2 :
          HasEntry(k) /\ allcodepoints2[k].property = "UNASSIGNED"
    /\ \E k \in DOMAIN allcodepoints2 : ~HasEntry(k)

\* --------------------------------------------------------------------- C4
\* a code point of both versions whose derived property value, General
\* Category and NFK data are the same in the two versions
Unchanged(k) ==
    /\ k \in DOMAIN properties1
    /\ k \in DOMAIN allcodepoints2
    /\ properties1[k] = allcodepoints2[k].property
    /\ Lookup(generalCategory1, k) = Lookup(generalCategory2, k)
    /\ LookupSlice(nfk1, k) = LookupSlice(nfk2, k)

\* C4: a code point that is in both versions with the same three attributes
\* has no line in Appendix A, B, C or D and no entry.
C4_UnchangedSilent ==
    AllLoaded =>
        \A k \in Keys :
            Unchanged(k) =>
                /\ \A app \in {"A", "B", "C", "D"} : ~HasLine(app, k)
                /\ ~HasEntry(k)

\* an unchanged code point that is PVALID, Mn and has NFK data of two tokens
\* in both versions, beside a code point that did get an entry
C4_Witness ==
    /\ pc = "done"
    /\ appendix # <<>>
    /\ \E k \in Keys :
          /\ Unchanged(k)
          /\ properties1[k] = "PVALID"
          /\ Lookup(generalCategory2, k) = "Mn"
          /\ Len(LookupSlice(nfk2, k)) = 2


\* --------------------------------------------------------------------- C5
\* the code points of both versions whose derived property value changed
Changed == {k \in DOMAIN properties1 \cap DOMAIN allcodepoints2 :
                properties1[k] # allcodepoints2[k].property}

ChangedFromUnassigned == {k \in Changed : properties1[k] = "UNASSIGNED"}

TotalLines ==
    LET Test(l) == l.app = "A" /\ l.kind = "total" IN SelectSeq(Text, Test)

\* C5: a code point whose old value is UNASSIGNED gets no Appendix A line and
\* no entry from the pass of Appendix A, and the total of the grouped summary
\* is the number of code points of both versions whose value changed: the
\* lines of Appendix A plus the changes from UNASSIGNED.
C5_UnassignedCounted ==
    /\ \A k \in DOMAIN properties1 :
          properties1[k] = "UNASSIGNED" =>
              /\ ~HasLine("A", k)
              /\ pc = "summary" => ~HasEntry(k)
    /\ pc \notin {"readProperties1", "readProperties2", "appendixA", "summary", "aborted"} =>
          /\ Changed # {} =>
                /\ Len(TotalLines) = 1
                /\ TotalLines[1].a = Cardinality(Changed)
                /\ TotalLines[1].a =
                      Len(AppendixLines("A")) + Cardinality(ChangedFromUnassigned)
          /\ Changed = {} => TotalLines = <<>>

\* a summary whose total of 2 is one line of Appendix A and one change from
\* UNASSIGNED to PVALID
C5_Witness ==
    /\ pc = "readGeneralCategory1"
    /\ Len(TotalLines) = 1
    /\ TotalLines[1].a = 2
    /\ Len(AppendixLines("A")) = 1
    /\ \E k \in ChangedFromUnassigned : allcodepoints2[k].property = "PVALID"

\* --------------------------------------------------------------------- C6
\* C6: a code point has an Appendix D line, and the entry that comes with it,
\* only if it is a key of the old version with the value UNASSIGNED, its new
\* value is PVALID and its new NFK data has more than one token.
C6_OnlyNewDecomposing ==
    AllLoaded =>
        /\ \A k \in Keys :
              HasLine("D", k) =>
                  /\ k \in DOMAIN properties1
                  /\ properties1[k] = "UNASSIGNED"
                  /\ k \in DOMAIN allcodepoints2
                  /\ allcodepoints2[k].property = "PVALID"
                  /\ Len(LookupSlice(nfk2, k)) > 1
        /\ Len(appendix) = Len(FlaggingLines)
        /\ numAppendixD = Len(AppendixLines("D"))

\* Appendix D has a line, while another code point that went from UNASSIGNED
\* to PVALID and has no NFK data of several tokens has none
C6_Witness ==
    /\ AllLoaded
    /\ AppendixLines("D") # <<>>
    /\ \E k \in DOMAIN properties1 \cap DOMAIN allcodepoints2 :
          /\ properties1[k] = "UNASSIGNED"
          /\ allcodepoints2[k].property = "PVALID"
          /\ Len(LookupSlice(nfk2, k)) <= 1
          /\ ~HasLine("D", k)

\* --------------------------------------------------------------------- C7
\* C7 as stated: a run that aborts on a dataset it cannot read has computed
\* no part of the appendices.
C7_NothingComputed ==
    pc = "aborted" => buffer = <<>> /\ appendix = <<>>

Printed == LET Test(l) == IsReportLine(l) IN SelectSeq(stdout, Test)

PrintedHeaders ==
    LET Test(l) == l.kind = "header" IN SelectSeq(Printed, Test)

\* C7 as amended: a run that aborts prints no line of any appendix (what it
\* had built stays in the buffer), and a run prints either no appendix line
\* or the six appendices A to F together, once the run is done.
C7_AllOrNothing ==
    /\ pc # "done" => Printed = <<>>
    /\ pc = "done" =>
          /\ buffer = <<>>
          /\ [i \in 1..Len(PrintedHeaders) |-> PrintedHeaders[i].app]
                = <<"A", "B", "C", "D", "E", "F">>

\* the new nfk.txt cannot be read after Appendix A, B and C were built
C7_Witness ==
    /\ pc = "aborted"
    /\ \A app \in {"A", "B", "C"} : AppendixLines(app) # <<>>
    /\ Printed = <<>>


\* --------------------------------------------------------------------- C8
\* x put into the ascending sequence s behind every element that is not
\* above it
RECURSIVE InsertBehind(_, _)
InsertBehind(s, x) ==
    IF s = <<>> THEN <<x>>
    ELSE IF hexToInt(x.cp) < hexToInt(s[1].cp) THEN <<x>> \o s
    ELSE <<s[1]>> \o InsertBehind(Tail(s), x)

\* the lines s by code point ascending, equal code points in the order of s
RECURSIVE StableByCodepoint(_)
StableByCodepoint(s) ==
    IF s = <<>> THEN <<>>
    ELSE InsertBehind(StableByCodepoint(SubSeq(s, 1, Len(s) - 1)), s[Len(s)])

\* the "U+XXXX; UNDER REVIEW # name" lines of Appendix E
ReviewLines ==
    LET Test(l) == l.app = "E" /\ l.kind = "line" IN SelectSeq(Text, Test)

\* C8: Appendix E has one line per entry (a code point that Appendix A, C or
\* D found twice has two), by code point ascending, and entries of the same
\* code point in the order they were found: A, then C, then D.
C8_StableReview ==
    Overridden =>
        LET expected == StableByCodepoint(FlaggingLines)
        IN /\ Len(ReviewLines) = Len(FlaggingLines)
           /\ \A i \in 1..Len(ReviewLines) :
                 ReviewLines[i].name
                    = Entry(hexToInt(expected[i].cp), expected[i].cp, expected[i].name).Name
           /\ \A i \in 1..Len(appendix) :
                 appendix[i]
                    = Entry(hexToInt(expected[i].cp), expected[i].cp, expected[i].name)

\* a code point found by two categories, and entries found out of code point
\* order (a later pass found a lower code point)
C8_Witness ==
    /\ Overridden
    /\ \E i, j \in 1..Len(FlaggingLines) :
          i < j /\ FlaggingLines[i].cp = FlaggingLines[j].cp
                /\ FlaggingLines[i].app = "A" /\ FlaggingLines[j].app = "C"
    /\ \E i, j \in 1..Len(FlaggingLines) :
          i < j /\ hexToInt(FlaggingLines[j].cp) < hexToInt(FlaggingLines[i].cp)
    /\ \E i \in 1..(Len(ReviewLines) - 1) : ReviewLines[i].name = ReviewLines[i + 1].name

\* --------------------------------------------------------------------- C9
\* a code point whose only change is its General Category, and which is not
\* newly Mn
OnlyCategoryChanged(k) ==
    /\ k \in DOMAIN properties1
    /\ k \in DOMAIN allcodepoints2
    /\ properties1[k] = allcodepoints2[k].property
    /\ properties1[k] # "UNASSIGNED"
    /\ Lookup(generalCategory1, k) # Lookup(generalCategory2, k)
    /\ Lookup(generalCategory2, k) # "Mn"

\* C9: a code point whose only change is a General Category change gets an
\* Appendix B line and no entry, so no Appendix E line, and Appendix F shows
\* it with the value it was loaded with.
C9_CategoryNotFlagged ==
    \A k \in Keys :
        (AllLoaded /\ OnlyCategoryChanged(k)) =>
            /\ HasLine("B", k)
            /\ ~HasEntry(k)
            /\ Overridden =>
                  \A i \in 1..Len(ReviewLines) :
                      ReviewLines[i].name # Entry(hexToInt(k), k, CodePointName).Name
            /\ pc = "done" =>
                  \E i \in 1..Len(RangeLines) :
                      /\ hexToInt(k) \in Expand(RangeLines[i])
                      /\ RangeLines[i].b = allcodepoints2[k].property

\* a finished report with such a code point (Mn before, Lu now) beside a
\* code point that is UNDER REVIEW
C9_Witness ==
    /\ pc = "done"
    /\ appendix # <<>>
    /\ \E k \in Keys :
          OnlyCategoryChanged(k) /\ Lookup(generalCategory1, k) = "Mn"

====
